---- MODULE Spec2Model ----
(***************************************************************************)
(* Fixed-capacity bitsets of drdozer/aoc_2024 (src/src/bitset):            *)
(* PrimitiveBitset (one unsigned word), PackedBitset (array of N words),   *)
(* SimdBitset (N lanes) and SparseBitset (list of (block, word) entries).  *)
(* Words are modelled as naturals below 2^width, and every shift, mask and *)
(* subtraction is computed as the Rust expression computes it.             *)
(***************************************************************************)
EXTENDS Integers, Sequences, FiniteSets, TLC

\* Width in bits of one storage word / lane (u8 .. u128 in the source).
WordBits == 2
\* Number of words of a packed bitset / lanes of a vectorized bitset.
NumWords == 2
\* Number of distinct blocks the sparse bitset's values are drawn from.
SparseBlocks == 2
\* Direction changes allowed in the call sequence of one iterator.
MaxTurns == 1
\* Calls on one iterator that may return None before it is dropped.
MaxNones == 2

\* PackedBitset::fixed_capacity / SimdBitset::fixed_capacity: N * sub-capacity.
Cap == NumWords * WordBits

Kinds == {"primitive", "packed", "simd", "sparse"}
Builds == {"debug", "release"}
\* What an out-of-bounds get_unchecked_mut can do: the library's debug
\* precondition check aborts, or the neighbouring memory is read and written.
UBOutcomes == {"abort", "benign"}

------------------------------------------------------------------------------
(* Unsigned word arithmetic at width W.                                     *)

Pow2(n) == 2 ^ n

\* x & y, bit by bit from the lowest; W bounds the number of bits looked at.
RECURSIVE AndFrom(_, _, _)
AndFrom(x, y, i) ==
    IF i = 0 \/ x = 0 \/ y = 0 THEN 0
    ELSE (x % 2) * (y % 2) + 2 * AndFrom(x \div 2, y \div 2, i - 1)

\* x & y
WAnd(W, x, y) == AndFrom(x, y, W)

\* x | y
WOr(W, x, y) == x + y - WAnd(W, x, y)

\* !x
WNot(W, x) == Pow2(W) - 1 - x

\* U::max_value() == !U::zero()
WMax(W) == Pow2(W) - 1

\* `x << n` overflows when n >= W: a debug build panics, a release build
\* masks the shift amount to the word width.
ShlOverflows(W, n) == n >= W

\* The value of `x << n` when no panic is raised: high bits fall off.
Shl(W, x, n) == (x * Pow2(n % W)) % Pow2(W)

\* x.wrapping_sub(y)
WrappingSub(W, x, y) == (x - y + Pow2(W)) % Pow2(W)

RECURSIVE CountOnes(_)
CountOnes(x) == IF x = 0 THEN 0 ELSE (x % 2) + CountOnes(x \div 2)

RECURSIVE TrailingZeros(_)
TrailingZeros(x) == IF x % 2 = 1 THEN 0 ELSE 1 + TrailingZeros(x \div 2)

RECURSIVE BitLength(_)
BitLength(x) == IF x = 0 THEN 0 ELSE 1 + BitLength(x \div 2)

LeadingZeros(W, x) == W - BitLength(x)

------------------------------------------------------------------------------
(* PrimitiveBitset<U>: one word of width W.  Every operation yields        *)
(* [bits, panic]: the word afterwards and whether the call panicked.       *)

PrimEmpty == 0

\* A faulty full(): the highest bit of the word is left out.
PrimFull_NoTopBit(W) == Pow2(W - 1) - 1

PrimFull(W) == WMax(W)

\* An operation's outcome: the value afterwards, whether the call panicked
\* (or aborted), and what it returned ("unit" when the function returns no value).
Done(b) == [bits |-> b, panic |-> FALSE, ret |-> "unit"]

Panicked(b) == [bits |-> b, panic |-> TRUE, ret |-> "unit"]

Returned(b, r) == [bits |-> b, panic |-> FALSE, ret |-> r]

BoolStr(p) == IF p THEN "true" ELSE "false"

\* A faulty set: the shift wraps in every build, no overflow panic.
PrimSet_Wrapping(W, bits, index, build) == Done(WOr(W, bits, Shl(W, 1, index)))

\* self.bits = self.bits | U::one() << index;   (returns no value)
PrimSet(W, bits, index, build) ==
    IF ShlOverflows(W, index) /\ build = "debug" THEN Panicked(bits)
    ELSE Done(WOr(W, bits, Shl(W, 1, index)))

\* self.bits = self.bits & !U::one() << index;
\* unary `!` binds tighter than `<<`: the mask is (!1) << index.
PrimUnset(W, bits, index, build) ==
    IF ShlOverflows(W, index) /\ build = "debug" THEN Panicked(bits)
    ELSE Done(WAnd(W, bits, Shl(W, WNot(W, 1), index)))

\* self.bits & U::one() << index != U::zero()
PrimGet(W, bits, index) == WAnd(W, bits, Shl(W, 1, index)) # 0

PrimCount(bits) == CountOnes(bits)

\* The end of a range: Bound::Excluded(i) => *i, Bound::Unbounded => self.size().
RangeEnd(W, end) == IF end.bound = "unbounded" THEN W ELSE end.at

\* A faulty set_range: the difference of the two shifts whatever the end.
PrimSetRange_NoClamp(W, bits, start, end, build) ==
    Done(WOr(W, bits, WrappingSub(W, Shl(W, 1, end), Shl(W, 1, start))))

\* set_range(start..end) with start <= end; an unbounded end is end = W.
PrimSetRange(W, bits, start, end, build) ==
    IF end >= W
    THEN IF ShlOverflows(W, start) /\ build = "debug" THEN Panicked(bits)
         ELSE Done(WOr(W, bits, Shl(W, WMax(W), start)))
    ELSE Done(WOr(W, bits, WrappingSub(W, Shl(W, 1, end), Shl(W, 1, start))))

\* unset_range(start..end) with start <= end; an unbounded end is end = W.
PrimUnsetRange(W, bits, start, end, build) ==
    IF end >= W
    THEN IF ShlOverflows(W, start) /\ build = "debug" THEN Panicked(bits)
         ELSE Done(WAnd(W, bits, WNot(W, Shl(W, WMax(W), start))))
    ELSE Done(WAnd(W, bits,
                   WNot(W, WrappingSub(W, Shl(W, 1, end), Shl(W, 1, start)))))

------------------------------------------------------------------------------
(* PackedBitset<P, N>: an array of NumWords primitive words of WordBits.   *)
(* The array is a function 0..NumWords-1 -> word.                          *)

Slots == 0 .. (NumWords - 1)

element_index(index) == index \div WordBits

bit_index(index) == index % WordBits

\* A faulty empty(): the last slot is left with its lowest bit set.
PackedEmpty_LastSlot == [j \in Slots |-> IF j = NumWords - 1 THEN 1 ELSE PrimEmpty]

PackedEmpty == [j \in Slots |-> PrimEmpty]

PackedFull == [j \in Slots |-> PrimFull(WordBits)]

\* self.0[element_index].<op>(bit_index): checked indexing panics past the array.
PackedAt(bits, ei, r) ==
    [bits |-> [bits EXCEPT ![ei] = r.bits], panic |-> r.panic, ret |-> r.ret]

PackedSet(bits, index, build) ==
    IF element_index(index) >= NumWords THEN Panicked(bits)
    ELSE PackedAt(bits, element_index(index),
                  PrimSet(WordBits, bits[element_index(index)], bit_index(index), build))

PackedUnset(bits, index, build) ==
    IF element_index(index) >= NumWords THEN Panicked(bits)
    ELSE PackedAt(bits, element_index(index),
                  PrimUnset(WordBits, bits[element_index(index)], bit_index(index), build))

PackedGet(bits, index) == PrimGet(WordBits, bits[element_index(index)], bit_index(index))

RECURSIVE PackedCountFrom(_, _)
PackedCountFrom(bits, n) ==
    IF n = 0 THEN 0 ELSE PackedCountFrom(bits, n - 1) + PrimCount(bits[n - 1])

\* for i in 0..N { count += self.0[i].count() }
PackedCount(bits) == PackedCountFrom(bits, NumWords)

\* self.0.get_unchecked_mut(ei).<range op>: slot ei = N is one past the array.
\* The access is undefined behaviour: it aborts, or it edits the word that
\* lies behind the array and leaves the array as it is.  range_op is
\* "set" or "unset"; (s, e) is the sub-range handed to the sub-component.
PackedFragment(bits, ei, range_op, s, e, build, ub) ==
    IF ei >= NumWords
    THEN IF ub = "abort" THEN Panicked(bits) ELSE Done(bits)
    ELSE PackedAt(bits, ei,
                  IF range_op = "set"
                  THEN PrimSetRange(WordBits, bits[ei], s, e, build)
                  ELSE PrimUnsetRange(WordBits, bits[ei], s, e, build))

\* The shared body of set_range / unset_range (they differ in the sub-call
\* and in the value assigned to the whole elements).
PackedRange(bits, start, end, range_op, whole, build, ub) ==
    LET sei == element_index(start)
        eei == element_index(end)
        sbi == bit_index(start)
        ebi == bit_index(end)
    IN  IF sei = eei
        THEN PackedFragment(bits, sei, range_op, sbi, ebi, build, ub)
        ELSE
          LET r1   == IF sbi > 0
                      THEN PackedFragment(bits, sei, range_op, sbi, WordBits, build, ub)
                      ELSE Done(bits)
              sei1 == IF sbi > 0 THEN sei + 1 ELSE sei
              r2   == IF r1.panic THEN r1
                      ELSE IF ebi < Cap
                           THEN PackedFragment(r1.bits, eei, range_op, 0, ebi, build, ub)
                           ELSE r1
              eei1 == IF ebi < Cap THEN eei - 1 ELSE eei
          IN  IF r2.panic THEN Panicked(r2.bits)
              ELSE Done([j \in Slots |->
                          IF sei1 <= j /\ j <= eei1 THEN whole ELSE r2.bits[j]])

PackedSetRange(bits, start, end, build, ub) ==
    PackedRange(bits, start, end, "set", PrimFull(WordBits), build, ub)

PackedUnsetRange(bits, start, end, build, ub) ==
    PackedRange(bits, start, end, "unset", PrimEmpty, build, ub)

\* One access self.0.get_unchecked_mut(ei) of a range edit: the slot, the part
\* of the edit it serves ("single", "lead", "trail" or "whole") and the
\* sub-range s..e handed to the sub-component (0..0 for a whole assignment).
Access(ei, part, s, e) == [ei |-> ei, part |-> part, s |-> s, e |-> e]

\* for i in start_element_index..=end_element_index { *get_unchecked_mut(i) = .. }
WholeAccesses(lo, hi) ==
    [n \in 1 .. (IF hi >= lo THEN hi - lo + 1 ELSE 0) |-> Access(lo + n - 1, "whole", 0, 0)]

\* The accesses set_range / unset_range make for start..end, in program
\* order: the single-element call, or the leading fragment (when
\* start_bit_index > 0), the trailing fragment (when end_bit_index <
\* Self::fixed_capacity()) and the whole elements in between.
PackedRangeTrace(start, end) ==
    LET sei == element_index(start)
        eei == element_index(end)
        sbi == bit_index(start)
        ebi == bit_index(end)
    IN  IF sei = eei
        THEN <<Access(sei, "single", sbi, ebi)>>
        ELSE
          LET lead  == IF sbi > 0 THEN <<Access(sei, "lead", sbi, WordBits)>> ELSE << >>
              sei1  == IF sbi > 0 THEN sei + 1 ELSE sei
              trail == IF ebi < Cap THEN <<Access(eei, "trail", 0, ebi)>> ELSE << >>
              eei1  == IF ebi < Cap THEN eei - 1 ELSE eei
          IN  lead \o trail \o WholeAccesses(sei1, eei1)

\* result.0[i] &= rhs.0[i] for i in 0..N
\* A faulty BitAnd: only the first word is combined, the others are copied.
PackedBitAnd_FirstWord(x, y) ==
    [j \in Slots |-> IF j = 0 THEN WAnd(WordBits, x[j], y[j]) ELSE x[j]]

PackedBitAnd(x, y) == [j \in Slots |-> WAnd(WordBits, x[j], y[j])]

\* result.0[i] |= rhs.0[i] for i in 0..N
PackedBitOr(x, y) == [j \in Slots |-> WOr(WordBits, x[j], y[j])]

------------------------------------------------------------------------------
(* SimdBitset<T, N>: NumWords lanes of WordBits, a function lane -> word.  *)

SimdEmpty == [j \in Slots |-> 0]

\* Simd::splat(!T::zero())
SimdFull == [j \in Slots |-> WNot(WordBits, 0)]

\* A faulty insert: the mask is OR-ed into every lane.
SimdInsert_AllLanes(bits, index) ==
    LET ei   == index \div WordBits
        mask == Shl(WordBits, 1, index % WordBits)
    IN  IF ei >= NumWords THEN Panicked(bits)
        ELSE Returned([j \in Slots |-> WOr(WordBits, bits[j], mask)],
                      BoolStr(~(WAnd(WordBits, bits[ei], mask) # 0)))

\* insert: panics when element_index >= N, else returns !was_set.
SimdInsert(bits, index) ==
    LET ei   == index \div WordBits
        mask == Shl(WordBits, 1, index % WordBits)
    IN  IF ei >= NumWords THEN Panicked(bits)
        ELSE Returned([bits EXCEPT ![ei] = WOr(WordBits, @, mask)],
                      BoolStr(~(WAnd(WordBits, bits[ei], mask) # 0)))

\* remove: mask = !(T::one() << bit_index)
SimdRemove(bits, index) ==
    LET ei   == index \div WordBits
        mask == WNot(WordBits, Shl(WordBits, 1, index % WordBits))
    IN  IF ei >= NumWords THEN Panicked(bits)
        ELSE Done([bits EXCEPT ![ei] = WAnd(WordBits, @, mask)])

SimdContains(bits, index) ==
    WAnd(WordBits, bits[index \div WordBits], Shl(WordBits, 1, index % WordBits)) # 0

RECURSIVE SimdCountFrom(_, _)
SimdCountFrom(bits, n) ==
    IF n = 0 THEN 0 ELSE SimdCountFrom(bits, n - 1) + CountOnes(bits[n - 1])

\* self.bits.to_array().iter().map(|&x| x.count_ones() as usize).sum()
SimdCount(bits) == SimdCountFrom(bits, NumWords)

\* Slow path: for i in start..end { if i < capacity { self.insert(i) / self.remove(i) } }
RECURSIVE SimdSlowPath(_, _, _, _)
SimdSlowPath(bits, i, end, range_op) ==
    IF i >= end THEN bits
    ELSE SimdSlowPath(IF i < Cap
                      THEN IF range_op = "set" THEN SimdInsert(bits, i).bits
                                               ELSE SimdRemove(bits, i).bits
                      ELSE bits,
                      i + 1, end, range_op)

\* A faulty range edit: the fast path writes lane i without the test i < N,
\* so a lane-aligned end past the capacity indexes past the last lane.
SimdRange_FastPanics(bits, start, end, range_op, whole) ==
    IF start % WordBits = 0 /\ end % WordBits = 0
    THEN IF end \div WordBits > NumWords /\ start < end
         THEN Panicked(bits)
         ELSE Done([j \in Slots |->
                      IF start \div WordBits <= j /\ j < end \div WordBits
                      THEN whole ELSE bits[j]])
    ELSE Done(SimdSlowPath(bits, start, end, range_op))

\* The shared body of insert_range / remove_range: whole lanes are overwritten
\* when both ends are lane-aligned, else the bits are edited one by one.
SimdRange(bits, start, end, range_op, whole) ==
    IF start % WordBits = 0 /\ end % WordBits = 0
    THEN Done([j \in Slots |->
                 IF start \div WordBits <= j /\ j < end \div WordBits
                 THEN whole ELSE bits[j]])
    ELSE Done(SimdSlowPath(bits, start, end, range_op))

SimdInsertRange(bits, start, end) ==
    SimdRange(bits, start, end, "set", WNot(WordBits, 0))

SimdRemoveRange(bits, start, end) ==
    SimdRange(bits, start, end, "unset", 0)

\* self.bits & rhs.bits, lane by lane
SimdBitAnd(x, y) == [j \in Slots |-> WAnd(WordBits, x[j], y[j])]

\* self.bits | rhs.bits, lane by lane
SimdBitOr(x, y) == [j \in Slots |-> WOr(WordBits, x[j], y[j])]

------------------------------------------------------------------------------
(* SparseBitset<Vec<SparseEntry<U>>, U>: entries [index, bits] in the      *)
(* order they were appended.                                               *)

SparseEmpty == << >>

\* (value / word_bits, value % word_bits)
index_offset(value) == <<value \div WordBits, value % WordBits>>

\* Position of the first entry whose index is idx, 0 when there is none
\* (the linear scan of set / unset / get).
RECURSIVE ScanFrom(_, _, _)
ScanFrom(components, idx, k) ==
    IF k > Len(components) THEN 0
    ELSE IF components[k].index = idx THEN k
    ELSE ScanFrom(components, idx, k + 1)

\* A faulty scan: only the entry appended last is looked at.
Scan_LastOnly(components, idx) ==
    IF Len(components) > 0 /\ components[Len(components)].index = idx
    THEN Len(components) ELSE 0

Scan(components, idx) == ScanFrom(components, idx, 1)

\* bits = empty(); bits.set(offset); self.push(SparseEntry { index, bits })
push_component(components, idx, offset, build) ==
    Append(components,
           [index |-> idx, bits |-> PrimSet(WordBits, PrimEmpty, offset, build).bits])

\* set: `return bits.set(offset)` hands on what PrimitiveBitset::set returns;
\* an appended entry returns true.
SparseSet(components, value, build) ==
    LET idx == index_offset(value)[1]
        off == index_offset(value)[2]
        k   == Scan(components, idx)
    IN  IF k > 0
        THEN Returned([components EXCEPT ![k].bits =
                           PrimSet(WordBits, @, off, build).bits],
                      PrimSet(WordBits, components[k].bits, off, build).ret)
        ELSE Returned(push_component(components, idx, off, build), "true")

\* A faulty unset: an entry whose word becomes zero is taken out of the list.
SparseUnset_DropsEmptied(components, value, build) ==
    LET idx == index_offset(value)[1]
        off == index_offset(value)[2]
        k   == Scan(components, idx)
    IN  IF k > 0
        THEN IF PrimUnset(WordBits, components[k].bits, off, build).bits = 0
             THEN Done(SubSeq(components, 1, k - 1)
                           \o SubSeq(components, k + 1, Len(components)))
             ELSE Done([components EXCEPT ![k].bits =
                            PrimUnset(WordBits, @, off, build).bits])
        ELSE Done(components)

SparseUnset(components, value, build) ==
    LET idx == index_offset(value)[1]
        off == index_offset(value)[2]
        k   == Scan(components, idx)
    IN  IF k > 0
        THEN Done([components EXCEPT ![k].bits =
                       PrimUnset(WordBits, @, off, build).bits])
        ELSE Done(components)

SparseGet(components, value) ==
    LET idx == index_offset(value)[1]
        off == index_offset(value)[2]
        k   == Scan(components, idx)
    IN  IF k > 0 THEN PrimGet(WordBits, components[k].bits, off) ELSE FALSE

RECURSIVE SparseCountFrom(_, _)
SparseCountFrom(components, n) ==
    IF n = 0 THEN 0
    ELSE SparseCountFrom(components, n - 1) + PrimCount(components[n].bits)

\* A faulty count(): the number of stored entries, not of their bits.
SparseCount_Entries(components) == Len(components)

\* self.components.as_slice().iter().map(|bits| bits.bits.count()).sum()
SparseCount(components) == SparseCountFrom(components, Len(components))

\* The bounded store ArrayVec<SparseEntry<U>, N>: N entry slots and a length.
\* It is modelled as the sequence data[0 .. len); an entry at position N + 1
\* of the sequence lies behind the array.
ArraySlots == SparseBlocks - 1

\* ArrayVec::push_unchecked: *self.data.get_unchecked_mut(self.len) = value;
\* self.len += 1.  With len = N the slot is one past the array, which is
\* undefined behaviour: the access aborts, or the entry is written behind the
\* array and len becomes N + 1.
ArrayVecPushUnchecked(components, entry, ub) ==
    IF Len(components) >= ArraySlots /\ ub = "abort" THEN Panicked(components)
    ELSE Done(Append(components, entry))

\* as_mut_slice: &mut self.data[..self.len] panics once len > N.
ArrayVecSlicePanics(components) == Len(components) > ArraySlots

\* push_component of the bounded store: bits.set(offset), then push_unchecked.
BoundedPushComponent(components, idx, offset, build, ub) ==
    ArrayVecPushUnchecked(components,
                          [index |-> idx,
                           bits |-> PrimSet(WordBits, PrimEmpty, offset, build).bits],
                          ub)

\* SparseBitset::set over the bounded store.
BoundedSparseSet(components, value, build, ub) ==
    LET idx == index_offset(value)[1]
        off == index_offset(value)[2]
        k   == Scan(components, idx)
        r   == BoundedPushComponent(components, idx, off, build, ub)
    IN  IF ArrayVecSlicePanics(components) THEN Panicked(components)
        ELSE IF k > 0
        THEN Returned([components EXCEPT ![k].bits =
                           PrimSet(WordBits, @, off, build).bits],
                      PrimSet(WordBits, components[k].bits, off, build).ret)
        ELSE IF r.panic THEN r
        ELSE Returned(r.bits, "true")

------------------------------------------------------------------------------
(* Iterators.  A call yields [st, val]: the iterator afterwards and the    *)
(* index returned, None when the call returned None.                       *)

None == -1

\* PrimitiveBitsetIterator::next: trailing zeros, then bits &= bits - 1.
\* A faulty next(): the cursor is decremented instead of losing its lowest bit.
PrimIterNext_Decrement(W, bits) ==
    IF bits = 0 THEN [st |-> bits, val |-> None]
    ELSE [st |-> WrappingSub(W, bits, 1), val |-> TrailingZeros(bits)]

PrimIterNext(W, bits) ==
    IF bits = 0 THEN [st |-> bits, val |-> None]
    ELSE [st |-> WAnd(W, bits, WrappingSub(W, bits, 1)), val |-> TrailingZeros(bits)]

\* A faulty next_back(): the highest bit is returned but not cleared.
PrimIterNextBack_NoClear(W, bits) ==
    IF bits = 0 THEN [st |-> bits, val |-> None]
    ELSE [st |-> bits, val |-> W - 1 - LeadingZeros(W, bits)]

\* PrimitiveBitsetIterator::next_back: value = capacity - 1 - leading_zeros,
\* then bits &= (1 << value) - 1.
PrimIterNextBack(W, bits) ==
    IF bits = 0 THEN [st |-> bits, val |-> None]
    ELSE LET value == W - 1 - LeadingZeros(W, bits)
         IN  [st |-> WAnd(W, bits, WrappingSub(W, Shl(W, 1, value), 1)), val |-> value]

\* A sub-iterator slot of the flat_map (frontiter / backiter): the word left
\* to yield and the offset i * P::fixed_capacity() its indices are shifted by.
NoInner == [some |-> FALSE, bits |-> 0, base |-> 0]

Inner(word, i) == [some |-> TRUE, bits |-> word, base |-> i * WordBits]

\* PackedBitset::into_iter: self.0.iter().enumerate().flat_map(..); f..e-1
\* are the elements the enumeration has not handed out yet.
PackedIntoIter(bits) == [f |-> 0, e |-> NumWords, front |-> NoInner, back |-> NoInner]

\* Advance one sub-iterator slot; an exhausted one is cleared.
InnerStep(slot, back) ==
    LET r == IF back THEN PrimIterNextBack(WordBits, slot.bits)
                     ELSE PrimIterNext(WordBits, slot.bits)
    IN  IF ~slot.some THEN [slot |-> NoInner, val |-> None]
        ELSE IF r.val = None THEN [slot |-> NoInner, val |-> None]
        ELSE [slot |-> [slot EXCEPT !.bits = r.st], val |-> slot.base + r.val]

\* FlatMap::next: drain frontiter, refill it from the enumeration, and fall
\* back to backiter once the enumeration is empty.
RECURSIVE PackedIterNext(_, _)
PackedIterNext(bits, st) ==
    LET fr == InnerStep(st.front, FALSE)
        bk == InnerStep(st.back, FALSE)
    IN  IF fr.val # None THEN [st |-> [st EXCEPT !.front = fr.slot], val |-> fr.val]
        ELSE IF st.f < st.e
        THEN PackedIterNext(bits, [st EXCEPT !.front = Inner(bits[st.f], st.f),
                                             !.f = st.f + 1])
        ELSE [st |-> [st EXCEPT !.front = fr.slot, !.back = bk.slot], val |-> bk.val]

\* FlatMap::next_back: the mirror image, from backiter and the enumeration's end.
RECURSIVE PackedIterNextBack(_, _)
PackedIterNextBack(bits, st) ==
    LET bk == InnerStep(st.back, TRUE)
        fr == InnerStep(st.front, TRUE)
    IN  IF bk.val # None THEN [st |-> [st EXCEPT !.back = bk.slot], val |-> bk.val]
        ELSE IF st.f < st.e
        THEN PackedIterNextBack(bits, [st EXCEPT !.back = Inner(bits[st.e - 1], st.e - 1),
                                                 !.e = st.e - 1])
        ELSE [st |-> [st EXCEPT !.back = bk.slot, !.front = fr.slot], val |-> fr.val]

\* SimdBitset::into_iter: a clone of the bitset and a cursor.
SimdIntoIter(bits) == [bitset |-> bits, current_element |-> 0, current_bit |-> 0]

\* SimdBitsetIterator::next: scan lanes from the cursor, bit by bit.
RECURSIVE SimdIterNext(_)
SimdIterNext(st) ==
    IF st.current_element >= NumWords THEN [st |-> st, val |-> None]
    ELSE LET value == st.bitset[st.current_element]
         IN  IF value = 0
             THEN SimdIterNext([st EXCEPT !.current_element = @ + 1, !.current_bit = 0])
             ELSE IF st.current_bit < WordBits
             THEN IF WAnd(WordBits, value, Shl(WordBits, 1, st.current_bit)) # 0
                  THEN [st  |-> [st EXCEPT !.current_bit = @ + 1],
                        val |-> st.current_element * WordBits + st.current_bit]
                  ELSE SimdIterNext([st EXCEPT !.current_bit = @ + 1])
             ELSE SimdIterNext([st EXCEPT !.current_element = @ + 1, !.current_bit = 0])

\* while bit_index > 0 { bit_index -= 1; if value & (1 << bit_index) != 0 .. }
RECURSIVE HighestBit(_, _)
HighestBit(value, bit) ==
    IF bit = 0 THEN None
    ELSE IF WAnd(WordBits, value, Shl(WordBits, 1, bit - 1)) # 0 THEN bit - 1
    ELSE HighestBit(value, bit - 1)

\* The highest set bit of the iterator's bitset, scanning lanes from the top.
RECURSIVE SimdHighest(_, _)
SimdHighest(bitset, ei) ==
    IF ei = 0 THEN None
    ELSE IF bitset[ei - 1] = 0 THEN SimdHighest(bitset, ei - 1)
    ELSE (ei - 1) * WordBits + HighestBit(bitset[ei - 1], WordBits)

\* SimdBitsetIterator::next_back: find the highest set bit and remove it
\* from the iterator's bitset; the cursor is not touched.
SimdIterNextBack(st) ==
    LET result == SimdHighest(st.bitset, NumWords)
    IN  IF result = None THEN [st |-> st, val |-> None]
        ELSE [st |-> [st EXCEPT !.bitset = SimdRemove(st.bitset, result).bits],
              val |-> result]

------------------------------------------------------------------------------
(* The shared capability contract (trait BitsetOps, BitsetRangeOps,        *)
(* BitwiseOps, IntoIterator), dispatched on the concrete type.  The        *)
(* primitive bitset is one word as wide as the packed bitset as a whole.   *)

PrimBits == Cap

RangeKinds == {"primitive", "packed", "simd"}

Empty(k) ==
    CASE k = "primitive" -> PrimEmpty
      [] k = "packed"    -> PackedEmpty
      [] k = "simd"      -> SimdEmpty
      [] k = "sparse"    -> SparseEmpty

Full(k) ==
    CASE k = "primitive" -> PrimFull(PrimBits)
      [] k = "packed"    -> PackedFull
      [] k = "simd"      -> SimdFull

\* The indices a caller may pass: [0, capacity); for the sparse set the
\* values of the first SparseBlocks blocks.
Domain(k) == IF k = "sparse" THEN 0 .. (SparseBlocks * WordBits - 1) ELSE 0 .. (Cap - 1)

insert(k, b, i, build) ==
    CASE k = "primitive" -> PrimSet(PrimBits, b, i, build)
      [] k = "packed"    -> PackedSet(b, i, build)
      [] k = "simd"      -> SimdInsert(b, i)
      [] k = "sparse"    -> SparseSet(b, i, build)

remove(k, b, i, build) ==
    CASE k = "primitive" -> PrimUnset(PrimBits, b, i, build)
      [] k = "packed"    -> PackedUnset(b, i, build)
      [] k = "simd"      -> SimdRemove(b, i)
      [] k = "sparse"    -> SparseUnset(b, i, build)

contains(k, b, i) ==
    CASE k = "primitive" -> PrimGet(PrimBits, b, i)
      [] k = "packed"    -> PackedGet(b, i)
      [] k = "simd"      -> SimdContains(b, i)
      [] k = "sparse"    -> SparseGet(b, i)

count(k, b) ==
    CASE k = "primitive" -> PrimCount(b)
      [] k = "packed"    -> PackedCount(b)
      [] k = "simd"      -> SimdCount(b)
      [] k = "sparse"    -> SparseCount(b)

insert_range(k, b, start, end, build, ub) ==
    CASE k = "primitive" -> PrimSetRange(PrimBits, b, start, end, build)
      [] k = "packed"    -> PackedSetRange(b, start, end, build, ub)
      [] k = "simd"      -> SimdInsertRange(b, start, end)

remove_range(k, b, start, end, build, ub) ==
    CASE k = "primitive" -> PrimUnsetRange(PrimBits, b, start, end, build)
      [] k = "packed"    -> PackedUnsetRange(b, start, end, build, ub)
      [] k = "simd"      -> SimdRemoveRange(b, start, end)

bitand(k, x, y) ==
    CASE k = "primitive" -> WAnd(PrimBits, x, y)
      [] k = "packed"    -> PackedBitAnd(x, y)
      [] k = "simd"      -> SimdBitAnd(x, y)

bitor(k, x, y) ==
    CASE k = "primitive" -> WOr(PrimBits, x, y)
      [] k = "packed"    -> PackedBitOr(x, y)
      [] k = "simd"      -> SimdBitOr(x, y)

\* The in-place forms: the value of x after x &= y and after x |= y.
\* self.bits &= rhs.bits
PrimBitAndAssign(W, x, y) == WAnd(W, x, y)

\* self.bits |= rhs.bits
PrimBitOrAssign(W, x, y) == WOr(W, x, y)

\* for i in 0..N { self.0[i] &= rhs.0[i] }
PackedBitAndAssign(x, y) == [j \in Slots |-> PrimBitAndAssign(WordBits, x[j], y[j])]

\* for i in 0..N { self.0[i] |= rhs.0[i] }
PackedBitOrAssign(x, y) == [j \in Slots |-> PrimBitOrAssign(WordBits, x[j], y[j])]

\* self.bits &= rhs.bits, lane by lane
SimdBitAndAssign(x, y) == [j \in Slots |-> WAnd(WordBits, x[j], y[j])]

\* A faulty |=: x is overwritten with y.
SimdBitOrAssign_Overwrite(x, y) == y

\* self.bits |= rhs.bits, lane by lane
SimdBitOrAssign(x, y) == [j \in Slots |-> WOr(WordBits, x[j], y[j])]

bitand_assign(k, x, y) ==
    CASE k = "primitive" -> PrimBitAndAssign(PrimBits, x, y)
      [] k = "packed"    -> PackedBitAndAssign(x, y)
      [] k = "simd"      -> SimdBitAndAssign(x, y)

bitor_assign(k, x, y) ==
    CASE k = "primitive" -> PrimBitOrAssign(PrimBits, x, y)
      [] k = "packed"    -> PackedBitOrAssign(x, y)
      [] k = "simd"      -> SimdBitOrAssign(x, y)

into_iter(k, b) ==
    CASE k = "primitive" -> b
      [] k = "packed"    -> PackedIntoIter(b)
      [] k = "simd"      -> SimdIntoIter(b)

next(k, b, st) ==
    CASE k = "primitive" -> PrimIterNext(PrimBits, st)
      [] k = "packed"    -> PackedIterNext(b, st)
      [] k = "simd"      -> SimdIterNext(st)

next_back(k, b, st) ==
    CASE k = "primitive" -> PrimIterNextBack(PrimBits, st)
      [] k = "packed"    -> PackedIterNextBack(b, st)
      [] k = "simd"      -> SimdIterNextBack(st)

\* The members of a bitset, as contains reports them.
Members(k, b) == {i \in Domain(k) : contains(k, b, i)}

\* The right-hand operands of & and |, by number: n < capacity is the bitset
\* that inserting n into empty() gives, then come full() and empty().
OperandAt(k, n) ==
    IF n < Cap THEN insert(k, Empty(k), n, "release").bits
    ELSE IF n = Cap THEN Full(k)
    ELSE Empty(k)

OperandNumbers == 0 .. (Cap + 1)

------------------------------------------------------------------------------
(* The point operations as calls (contains may panic too) and the          *)
(* unchecked entry points of trait BitsetOpsUnsafe.                        *)

\* get as a call: the shift panics in a debug build when index >= W.
PrimGetCall(W, bits, index, build) ==
    IF ShlOverflows(W, index) /\ build = "debug" THEN Panicked(bits)
    ELSE Returned(bits, BoolStr(PrimGet(W, bits, index)))

\* self.0[element_index].get(bit_index): checked indexing panics past the array.
PackedGetCall(bits, index, build) ==
    IF element_index(index) >= NumWords THEN Panicked(bits)
    ELSE Returned(bits, BoolStr(PackedGet(bits, index)))

\* contains: panics when element_index >= N.
SimdContainsCall(bits, index) ==
    IF index \div WordBits >= NumWords THEN Panicked(bits)
    ELSE Returned(bits, BoolStr(SimdContains(bits, index)))

\* BitsetOps::set(self, index)
PrimSetUnchecked(W, bits, index, build) == PrimSet(W, bits, index, build)

\* BitsetOps::unset(self, index)
PrimUnsetUnchecked(W, bits, index, build) == PrimUnset(W, bits, index, build)

\* BitsetOps::get(self, index)
PrimGetUnchecked(W, bits, index, build) == PrimGetCall(W, bits, index, build)

\* A faulty set_unchecked: the bit is set in the first slot whatever the index.
PackedSetUnchecked_FirstSlot(bits, index, build, ub) ==
    PackedAt(bits, 0, PrimSetUnchecked(WordBits, bits[0], bit_index(index), build))

\* self.0.get_unchecked_mut(element_index).set_unchecked(bit_index): past the
\* array the access is undefined behaviour (it aborts, or it edits the word
\* behind the array and leaves the array as it is).
PackedSetUnchecked(bits, index, build, ub) ==
    IF element_index(index) >= NumWords
    THEN IF ub = "abort" THEN Panicked(bits) ELSE Done(bits)
    ELSE PackedAt(bits, element_index(index),
                  PrimSetUnchecked(WordBits, bits[element_index(index)],
                                   bit_index(index), build))

PackedUnsetUnchecked(bits, index, build, ub) ==
    IF element_index(index) >= NumWords
    THEN IF ub = "abort" THEN Panicked(bits) ELSE Done(bits)
    ELSE PackedAt(bits, element_index(index),
                  PrimUnsetUnchecked(WordBits, bits[element_index(index)],
                                     bit_index(index), build))

\* self.0.get_unchecked(element_index).get_unchecked(bit_index): past the
\* array the word read is whatever lies behind it.
PackedGetUnchecked(bits, index, build, ub, behind) ==
    IF element_index(index) >= NumWords
    THEN IF ub = "abort" THEN Panicked(bits)
         ELSE [PrimGetUnchecked(WordBits, behind, bit_index(index), build)
                   EXCEPT !.bits = bits]
    ELSE [PrimGetUnchecked(WordBits, bits[element_index(index)],
                           bit_index(index), build) EXCEPT !.bits = bits]

\* insert_unchecked: insert without the element_index test; self.bits[i]
\* still panics past the last lane.
SimdInsertUnchecked(bits, index) ==
    LET ei   == index \div WordBits
        mask == Shl(WordBits, 1, index % WordBits)
    IN  IF ei >= NumWords THEN Panicked(bits)
        ELSE Returned([bits EXCEPT ![ei] = WOr(WordBits, @, mask)],
                      BoolStr(~(WAnd(WordBits, bits[ei], mask) # 0)))

SimdRemoveUnchecked(bits, index) ==
    LET ei   == index \div WordBits
        mask == WNot(WordBits, Shl(WordBits, 1, index % WordBits))
    IN  IF ei >= NumWords THEN Panicked(bits)
        ELSE Done([bits EXCEPT ![ei] = WAnd(WordBits, @, mask)])

SimdContainsUnchecked(bits, index) ==
    LET ei   == index \div WordBits
        mask == Shl(WordBits, 1, index % WordBits)
    IN  IF ei >= NumWords THEN Panicked(bits)
        ELSE Returned(bits, BoolStr(WAnd(WordBits, bits[ei], mask) # 0))

contains_call(k, b, i, build) ==
    CASE k = "primitive" -> PrimGetCall(PrimBits, b, i, build)
      [] k = "packed"    -> PackedGetCall(b, i, build)
      [] k = "simd"      -> SimdContainsCall(b, i)

insert_unchecked(k, b, i, build, ub) ==
    CASE k = "primitive" -> PrimSetUnchecked(PrimBits, b, i, build)
      [] k = "packed"    -> PackedSetUnchecked(b, i, build, ub)
      [] k = "simd"      -> SimdInsertUnchecked(b, i)

remove_unchecked(k, b, i, build, ub) ==
    CASE k = "primitive" -> PrimUnsetUnchecked(PrimBits, b, i, build)
      [] k = "packed"    -> PackedUnsetUnchecked(b, i, build, ub)
      [] k = "simd"      -> SimdRemoveUnchecked(b, i)

contains_unchecked(k, b, i, build, ub, behind) ==
    CASE k = "primitive" -> PrimGetUnchecked(PrimBits, b, i, build)
      [] k = "packed"    -> PackedGetUnchecked(b, i, build, ub, behind)
      [] k = "simd"      -> SimdContainsUnchecked(b, i)

------------------------------------------------------------------------------
(* The state machine: one bitset value `bits` of a concrete type, the last *)
(* operation applied to it, and at most one live iterator over it.  Spec   *)
(* runs the edits and the bitwise operations, SpecIter the iterators.      *)

VARIABLES
    kind,     \* the concrete type of the bitset
    build,    \* "debug" (overflow checks on) or "release"
    bits,     \* the bitset's value
    pre,      \* its value before the last operation
    op,       \* the last operation, "idle" once the caller is done with it
    arg,      \* [a, b]: its index (a) or its range a..b
    rhs,      \* the right-hand operand of the last & / |, as it is afterwards
    ret,      \* what the last operation returned: "true", "false" or "unit"
    res,      \* the value a value-returning & / | produced
    status,   \* "ok", or "panic" once a call panicked or aborted
    iter,     \* the live iterator: [on, st, calls]
    ref       \* a primitive bitset of the whole capacity run in lockstep

vars == <<kind, build, bits, pre, op, arg, rhs, ret, res, status, iter, ref>>

NoIter == [on |-> FALSE, st |-> 0, calls |-> << >>]

NoRef == [bits |-> PrimEmpty, status |-> "ok"]

Init ==
    /\ kind \in Kinds
    /\ build \in Builds
    /\ \/ bits = Empty(kind) /\ op = "empty"
       \/ kind \in RangeKinds /\ bits = Full(kind) /\ op = "full"
    /\ pre = bits
    /\ arg = [a |-> 0, b |-> 0]
    /\ rhs = Empty(kind)
    /\ ret = "unit"
    /\ res = Empty(kind)
    /\ status = "ok"
    /\ iter = NoIter
    /\ ref = NoRef

\* A call may be made while the program runs, no iterator borrows the bitset
\* and the caller is done with the previous call.
Callable == status = "ok" /\ ~iter.on /\ op = "idle"

\* The effect of one mutating call with outcome r.
Call(name, a, b, r) ==
    /\ bits' = r.bits
    /\ pre' = bits
    /\ op' = name
    /\ arg' = [a |-> a, b |-> b]
    /\ rhs' = Empty(kind)
    /\ ret' = r.ret
    /\ res' = Empty(kind)
    /\ status' = IF r.panic THEN "panic" ELSE "ok"
    /\ UNCHANGED <<kind, build, iter>>

Apply(name, a, b, r) == Call(name, a, b, r) /\ UNCHANGED ref

\* The outcomes to choose from: the out-of-bounds access happens only in a
\* packed range edit whose end is the capacity (element_index(end) = N).
UBChoices(k, end) ==
    IF k = "packed" /\ element_index(end) >= NumWords THEN UBOutcomes ELSE {"benign"}

Insert(i) ==
    /\ Callable
    /\ Apply("insert", i, i, insert(kind, bits, i, build))

Remove(i) ==
    /\ Callable
    /\ Apply("remove", i, i, remove(kind, bits, i, build))

InsertRange(a, b) ==
    /\ Callable
    /\ kind \in RangeKinds
    /\ \E ub \in UBChoices(kind, b) :
          Apply("insert_range", a, b, insert_range(kind, bits, a, b, build, ub))

RemoveRange(a, b) ==
    /\ Callable
    /\ kind \in RangeKinds
    /\ \E ub \in UBChoices(kind, b) :
          Apply("remove_range", a, b, remove_range(kind, bits, a, b, build, ub))

\* x & y and x | y: the operands are taken by value, the result is new.
\* n is the number of the operand y; rhs is y as it is after the call.
Bitwise(name, n, value) ==
    /\ Callable
    /\ kind \in RangeKinds
    /\ res' = value
    /\ rhs' = OperandAt(kind, n)
    /\ pre' = bits
    /\ op' = name
    /\ arg' = [a |-> n, b |-> n]
    /\ ret' = "unit"
    /\ UNCHANGED <<kind, build, bits, status, iter, ref>>

BitAnd(n) == Bitwise("bitand", n, bitand(kind, bits, OperandAt(kind, n)))

BitOr(n) == Bitwise("bitor", n, bitor(kind, bits, OperandAt(kind, n)))

\* x &= y and x |= y: x is overwritten in place.
BitwiseAssign(name, n, value) ==
    /\ Callable
    /\ kind \in RangeKinds
    /\ bits' = value
    /\ rhs' = OperandAt(kind, n)
    /\ pre' = bits
    /\ op' = name
    /\ arg' = [a |-> n, b |-> n]
    /\ ret' = "unit"
    /\ res' = Empty(kind)
    /\ UNCHANGED <<kind, build, status, iter, ref>>

BitAndAssign(n) ==
    BitwiseAssign("bitand_assign", n, bitand_assign(kind, bits, OperandAt(kind, n)))

BitOrAssign(n) ==
    BitwiseAssign("bitor_assign", n, bitor_assign(kind, bits, OperandAt(kind, n)))

\* The calls made on the live iterator so far.
Yielded(calls) == SelectSeq(calls, LAMBDA c : c.val # None)

Nones(calls) == Len(SelectSeq(calls, LAMBDA c : c.val = None))

RECURSIVE Turns(_)
Turns(calls) ==
    IF Len(calls) < 2 THEN 0
    ELSE Turns(SubSeq(calls, 1, Len(calls) - 1))
         + (IF calls[Len(calls)].dir # calls[Len(calls) - 1].dir THEN 1 ELSE 0)

\* May the iterator be called in direction dir once more?
MayCall(dir) ==
    /\ status = "ok"
    /\ iter.on
    /\ Nones(iter.calls) < MaxNones
    /\ Turns(Append(iter.calls, [dir |-> dir, val |-> None])) <= MaxTurns

IntoIter ==
    /\ Callable
    /\ kind \in RangeKinds
    /\ iter' = [on |-> TRUE, st |-> into_iter(kind, bits), calls |-> << >>]
    /\ pre' = bits
    /\ op' = "into_iter"
    /\ arg' = [a |-> 0, b |-> 0]
    /\ rhs' = Empty(kind)
    /\ ret' = "unit"
    /\ res' = Empty(kind)
    /\ UNCHANGED <<kind, build, bits, status, ref>>

\* A faulty iterator: the primitive iterator's cursor is the bitset's own word.
Iterated_SharedWord(k, b, st) == IF k = "primitive" THEN st ELSE b

\* What the iterated bitset holds after a call on its iterator with new
\* cursor st: the iterator works on its own copy of the words
\* (PrimitiveBitsetIterator { bits: self.bits }, bitset: self.clone(), a
\* shared borrow of the packed array), so the bitset is not written.
Iterated(k, b, st) == b

IterCall(dir, r) ==
    /\ iter' = [iter EXCEPT !.st = r.st,
                            !.calls = Append(@, [dir |-> dir, val |-> r.val])]
    /\ bits' = Iterated(kind, bits, r.st)
    /\ UNCHANGED <<kind, build, pre, op, arg, rhs, ret, res, status, ref>>

IterNext ==
    /\ MayCall("next")
    /\ IterCall("next", next(kind, bits, iter.st))

IterNextBack ==
    /\ MayCall("next_back")
    /\ IterCall("next_back", next_back(kind, bits, iter.st))

\* The iterator goes out of scope.
IterDrop ==
    /\ status = "ok"
    /\ iter.on
    /\ iter' = NoIter
    /\ UNCHANGED <<kind, build, bits, pre, op, arg, rhs, ret, res, status, ref>>

\* The caller is done with the last call: its arguments, its return value and
\* the copy of the value it started from go out of scope.
Settle ==
    /\ status = "ok"
    /\ ~iter.on
    /\ op # "idle"
    /\ op' = "idle"
    /\ pre' = bits
    /\ arg' = [a |-> 0, b |-> 0]
    /\ rhs' = Empty(kind)
    /\ ret' = "unit"
    /\ res' = Empty(kind)
    /\ UNCHANGED <<kind, build, bits, status, iter, ref>>

Next ==
    \/ \E i \in Domain(kind) : Insert(i)
    \/ \E i \in Domain(kind) : Remove(i)
    \/ \E a \in 0 .. Cap : \E b \in a .. Cap : InsertRange(a, b)
    \/ \E a \in 0 .. Cap : \E b \in a .. Cap : RemoveRange(a, b)
    \/ \E n \in OperandNumbers : BitAnd(n)
    \/ \E n \in OperandNumbers : BitOr(n)
    \/ \E n \in OperandNumbers : BitAndAssign(n)
    \/ \E n \in OperandNumbers : BitOrAssign(n)
    \/ Settle

Spec == Init /\ [][Next]_vars

\* The point edits alone: every sequence of insert and remove from empty()
\* (or full()), for all four types.
NextEdit ==
    \/ \E i \in Domain(kind) : Insert(i)
    \/ \E i \in Domain(kind) : Remove(i)
    \/ Settle

SpecEdit == Init /\ [][NextEdit]_vars

------------------------------------------------------------------------------
(* Iteration: a bitset of an iterable type is built by insert calls and    *)
(* then iterated; the iterator borrows the bitset (or holds a copy of it), *)
(* so no edit happens while it is live.                                    *)

InitIter == Init /\ kind \in RangeKinds

NextIter ==
    \/ \E i \in Domain(kind) : Insert(i)
    \/ IntoIter
    \/ IterNext
    \/ IterNextBack
    \/ IterDrop
    \/ Settle

SpecIter == InitIter /\ [][NextIter]_vars

\* The iterators of the primitive and the packed bitset alone, which consume
\* one shared word (or run of words) from both ends.
InitEnds == Init /\ kind \in {"primitive", "packed"}

SpecEnds == InitEnds /\ [][NextIter]_vars

------------------------------------------------------------------------------
(* Array composition against one wide word: a packed bitset and a          *)
(* primitive bitset of the same capacity are run from empty() through the  *)
(* same calls of insert, insert_range and remove_range.                    *)

InitLockstep ==
    /\ kind = "packed"
    /\ build \in Builds
    /\ bits = PackedEmpty
    /\ op = "empty"
    /\ pre = bits
    /\ arg = [a |-> 0, b |-> 0]
    /\ rhs = PackedEmpty
    /\ ret = "unit"
    /\ res = PackedEmpty
    /\ status = "ok"
    /\ iter = NoIter
    /\ ref = NoRef

\* Both bitsets take the call; q is the outcome on the primitive one.
Both(name, a, b, r, q) ==
    /\ Callable
    /\ ref.status = "ok"
    /\ Call(name, a, b, r)
    /\ ref' = [bits |-> q.bits, status |-> IF q.panic THEN "panic" ELSE "ok"]

LockstepInsert(i) ==
    Both("insert", i, i, PackedSet(bits, i, build), PrimSet(PrimBits, ref.bits, i, build))

LockstepInsertRange(a, b) ==
    \E ub \in UBChoices(kind, b) :
        Both("insert_range", a, b, PackedSetRange(bits, a, b, build, ub),
             PrimSetRange(PrimBits, ref.bits, a, b, build))

LockstepRemoveRange(a, b) ==
    \E ub \in UBChoices(kind, b) :
        Both("remove_range", a, b, PackedUnsetRange(bits, a, b, build, ub),
             PrimUnsetRange(PrimBits, ref.bits, a, b, build))

NextLockstep ==
    \/ \E i \in 0 .. (Cap - 1) : LockstepInsert(i)
    \/ \E a \in 0 .. Cap : \E b \in a .. Cap : LockstepInsertRange(a, b)
    \/ \E a \in 0 .. Cap : \E b \in a .. Cap : LockstepRemoveRange(a, b)
    \/ Settle

SpecLockstep == InitLockstep /\ [][NextLockstep]_vars

------------------------------------------------------------------------------
(* The vectorized bitset against the packed one: a SimdBitset (`bits`) and *)
(* a PackedBitset of the same lane width and lane count (`ref`) are run    *)
(* from empty() through the same calls.                                    *)

InitContract ==
    /\ kind = "simd"
    /\ build \in Builds
    /\ bits = SimdEmpty
    /\ op = "empty"
    /\ pre = bits
    /\ arg = [a |-> 0, b |-> 0]
    /\ rhs = SimdEmpty
    /\ ret = "unit"
    /\ res = SimdEmpty
    /\ status = "ok"
    /\ iter = NoIter
    /\ ref = [bits |-> PackedEmpty, status |-> "ok", ret |-> "unit"]

\* Both bitsets take the call; q is the outcome on the packed one.
BothContract(name, a, b, r, q) ==
    /\ Callable
    /\ ref.status = "ok"
    /\ Call(name, a, b, r)
    /\ ref' = [bits |-> q.bits, status |-> IF q.panic THEN "panic" ELSE "ok",
               ret |-> q.ret]

ContractInsert(i) ==
    BothContract("insert", i, i, SimdInsert(bits, i), PackedSet(ref.bits, i, build))

ContractRemove(i) ==
    BothContract("remove", i, i, SimdRemove(bits, i), PackedUnset(ref.bits, i, build))

ContractInsertRange(a, b) ==
    \E ub \in UBChoices("packed", b) :
        BothContract("insert_range", a, b, SimdInsertRange(bits, a, b),
                     PackedSetRange(ref.bits, a, b, build, ub))

ContractRemoveRange(a, b) ==
    \E ub \in UBChoices("packed", b) :
        BothContract("remove_range", a, b, SimdRemoveRange(bits, a, b),
                     PackedUnsetRange(ref.bits, a, b, build, ub))

\* x = x & y and x = x | y on both, with the same operand number.
ContractBitAnd(n) ==
    BothContract("bitand", n, n,
                 Done(SimdBitAnd(bits, OperandAt("simd", n))),
                 Done(PackedBitAnd(ref.bits, OperandAt("packed", n))))

ContractBitOr(n) ==
    BothContract("bitor", n, n,
                 Done(SimdBitOr(bits, OperandAt("simd", n))),
                 Done(PackedBitOr(ref.bits, OperandAt("packed", n))))

NextContract ==
    \/ \E i \in 0 .. (Cap - 1) : ContractInsert(i)
    \/ \E i \in 0 .. (Cap - 1) : ContractRemove(i)
    \/ \E a \in 0 .. Cap : \E b \in a .. Cap : ContractInsertRange(a, b)
    \/ \E a \in 0 .. Cap : \E b \in a .. Cap : ContractRemoveRange(a, b)
    \/ \E n \in OperandNumbers : ContractBitAnd(n)
    \/ \E n \in OperandNumbers : ContractBitOr(n)
    \/ Settle

SpecContract == InitContract /\ [][NextContract]_vars

------------------------------------------------------------------------------
(* Point operations as calls, checked and unchecked, with indices at and   *)
(* past the capacity.                                                      *)

\* How far past the capacity an index may lie.
MaxBeyond == 1

PointIndices == 0 .. (Cap + MaxBeyond - 1)

InitPoint == Init /\ kind \in RangeKinds

PointInsert(i) == Callable /\ Apply("insert", i, i, insert(kind, bits, i, build))

PointRemove(i) == Callable /\ Apply("remove", i, i, remove(kind, bits, i, build))

PointContains(i) ==
    Callable /\ Apply("contains", i, i, contains_call(kind, bits, i, build))

\* The unchecked entry points are called inside their contract, i < capacity.
PointInsertUnchecked(i) ==
    /\ Callable
    /\ \E ub \in UBChoices(kind, i) :
          Apply("insert_unchecked", i, i, insert_unchecked(kind, bits, i, build, ub))

PointRemoveUnchecked(i) ==
    /\ Callable
    /\ \E ub \in UBChoices(kind, i) :
          Apply("remove_unchecked", i, i, remove_unchecked(kind, bits, i, build, ub))

PointContainsUnchecked(i) ==
    /\ Callable
    /\ \E ub \in UBChoices(kind, i) : \E behind \in 0 .. WMax(WordBits) :
          Apply("contains_unchecked", i, i,
                contains_unchecked(kind, bits, i, build, ub, behind))

NextPoint ==
    \/ \E i \in PointIndices : PointInsert(i)
    \/ \E i \in PointIndices : PointRemove(i)
    \/ \E i \in PointIndices : PointContains(i)
    \/ \E i \in 0 .. (Cap - 1) : PointInsertUnchecked(i)
    \/ \E i \in 0 .. (Cap - 1) : PointRemoveUnchecked(i)
    \/ \E i \in 0 .. (Cap - 1) : PointContainsUnchecked(i)
    \/ Settle

SpecPoint == InitPoint /\ [][NextPoint]_vars

------------------------------------------------------------------------------
(* Range edits of the primitive bitset whose end lies past the capacity or *)
(* is unbounded (a..).                                                     *)

InitClamp == Init /\ kind = "primitive"

\* The end bounds a caller writes: a..b with b up to past the capacity, and a..
ClampEnds(a) ==
    {[bound |-> "excluded", at |-> b] : b \in a .. (Cap + MaxBeyond)}
        \cup {[bound |-> "unbounded", at |-> 0]}

\* arg.b records the end as the code resolves it.
ClampInsertRange(a, e) ==
    /\ Callable
    /\ Apply(IF e.bound = "unbounded" THEN "insert_range_from" ELSE "insert_range",
             a, RangeEnd(PrimBits, e),
             PrimSetRange(PrimBits, bits, a, RangeEnd(PrimBits, e), build))

ClampRemoveRange(a, e) ==
    /\ Callable
    /\ Apply(IF e.bound = "unbounded" THEN "remove_range_from" ELSE "remove_range",
             a, RangeEnd(PrimBits, e),
             PrimUnsetRange(PrimBits, bits, a, RangeEnd(PrimBits, e), build))

NextClamp ==
    \/ \E i \in 0 .. (Cap - 1) : Insert(i)
    \/ \E a \in 0 .. Cap : \E e \in ClampEnds(a) : ClampInsertRange(a, e)
    \/ \E a \in 0 .. Cap : \E e \in ClampEnds(a) : ClampRemoveRange(a, e)
    \/ Settle

SpecClamp == InitClamp /\ [][NextClamp]_vars

------------------------------------------------------------------------------
(* The sparse bitset over the bounded store, filled by insert calls with   *)
(* values of more blocks than the store has slots.                         *)

InitBounded == Init /\ kind = "sparse"

\* The undefined access happens when a new block meets a store of N entries.
BoundedUBChoices(components, value) ==
    IF Len(components) >= ArraySlots /\ Scan(components, index_offset(value)[1]) = 0
    THEN UBOutcomes ELSE {"benign"}

BoundedInsert(v) ==
    /\ Callable
    /\ \E ub \in BoundedUBChoices(bits, v) :
          Apply("insert", v, v, BoundedSparseSet(bits, v, build, ub))

NextBounded ==
    \/ \E v \in Domain("sparse") : BoundedInsert(v)
    \/ Settle

SpecBounded == InitBounded /\ [][NextBounded]_vars

------------------------------------------------------------------------------
(* Range edits of the vectorized bitset whose start or end lies past the   *)
(* capacity, lane-aligned (fast path) or not (slow path).                  *)

InitSimdClamp == Init /\ kind = "simd"

\* Range bounds reach MaxBeyond lanes past the capacity.
SimdClampBounds == 0 .. (Cap + MaxBeyond * WordBits)

SimdClampInsertRange(a, b) ==
    /\ Callable
    /\ Apply("insert_range", a, b, SimdInsertRange(bits, a, b))

SimdClampRemoveRange(a, b) ==
    /\ Callable
    /\ Apply("remove_range", a, b, SimdRemoveRange(bits, a, b))

NextSimdClamp ==
    \/ \E i \in 0 .. (Cap - 1) : Insert(i)
    \/ \E a \in SimdClampBounds : \E b \in SimdClampBounds :
           a <= b /\ SimdClampInsertRange(a, b)
    \/ \E a \in SimdClampBounds : \E b \in SimdClampBounds :
           a <= b /\ SimdClampRemoveRange(a, b)
    \/ Settle

SpecSimdClamp == InitSimdClamp /\ [][NextSimdClamp]_vars

------------------------------------------------------------------------------
(* Properties.                                                             *)

\* The indices of the range a..b.
InRange(j) == arg.a <= j /\ j < arg.b

\* Do two values of the concrete type hold the same members?
SameMembers(x, y) == Members(kind, x) = Members(kind, y)

\* C1: remove(i) clears bit i and changes no other bit, for the primitive,
\* packed and vectorized bitsets; on a state where i is absent it leaves the
\* members and count() as they were.
C1_RemoveChangesOnlyBitI ==
    (kind \in RangeKinds /\ op = "remove" /\ status = "ok") =>
        /\ ~contains(kind, bits, arg.a)
        /\ \A j \in Domain(kind) \ {arg.a} :
               contains(kind, bits, j) = contains(kind, pre, j)
        /\ ~contains(kind, pre, arg.a) =>
               SameMembers(bits, pre) /\ count(kind, bits) = count(kind, pre)

\* C2: insert(i) returns true exactly when bit i goes from unset to set, and
\* then count() grows by one; insert(i) of a member (a second insert with no
\* remove in between) returns false and changes nothing.
C2_InsertReportsTransition ==
    (op = "insert" /\ status = "ok") =>
        IF ~contains(kind, pre, arg.a)
        THEN ret = "true" /\ count(kind, bits) = count(kind, pre) + 1
        ELSE ret = "false" /\ SameMembers(bits, pre)
             /\ count(kind, bits) = count(kind, pre)

\* C3: insert(i) on a state s without i, followed by remove(i), gives s back:
\* i is absent again, the members are those of s and count() is as in s.
C3_InsertRemoveRoundTrip ==
    (op = "insert" /\ status = "ok" /\ ~contains(kind, pre, arg.a)) =>
        LET r == remove(kind, bits, arg.a, build)
        IN  /\ ~r.panic
            /\ ~contains(kind, r.bits, arg.a)
            /\ SameMembers(r.bits, pre)
            /\ count(kind, r.bits) = count(kind, pre)

\* C4: after insert_range(a..b) with 0 <= a <= b <= capacity every index of
\* [a, b) is a member, every index outside is as before, and from an empty
\* bitset count() = b - a.
C4_InsertRangeSetsTheRange ==
    (op = "insert_range" /\ status = "ok") =>
        /\ \A j \in Domain(kind) :
               contains(kind, bits, j) = (InRange(j) \/ contains(kind, pre, j))
        /\ count(kind, pre) = 0 => count(kind, bits) = arg.b - arg.a

\* C5: after remove_range(a..b) with 0 <= a <= b <= capacity no index of
\* [a, b) is a member and every index outside is as before.
C5_RemoveRangeClearsTheRange ==
    (op = "remove_range" /\ status = "ok") =>
        \A j \in Domain(kind) :
            contains(kind, bits, j) = (~InRange(j) /\ contains(kind, pre, j))

\* C6: insert_range(a..b) followed by remove_range(a..b) restores the prior
\* state exactly, for every prior state and all 0 <= a <= b <= capacity.
C6_RangeRoundTrip ==
    (op = "insert_range" /\ status = "ok") =>
        \A ub \in UBChoices(kind, arg.b) :
            LET r == remove_range(kind, bits, arg.a, arg.b, build, ub)
            IN  ~r.panic /\ r.bits = pre

\* C7: a packed bitset of N words of width w and one primitive bitset of
\* width N*w, run from empty through the same insert, insert_range and
\* remove_range calls, agree on contains(i) for every i and on count().
C7_PackedAgreesWithOneWord ==
    (status = "ok" /\ ref.status = "ok") =>
        /\ \A i \in 0 .. (Cap - 1) :
               PackedGet(bits, i) = PrimGet(PrimBits, ref.bits, i)
        /\ PackedCount(bits) = PrimCount(ref.bits)

\* The members of S in ascending order.
RECURSIVE Ascending(_)
Ascending(S) ==
    IF S = {} THEN << >>
    ELSE LET m == CHOOSE x \in S : \A y \in S : x <= y
         IN  <<m>> \o Ascending(S \ {m})

AllCalls(dir) == \A n \in 1 .. Len(iter.calls) : iter.calls[n].dir = dir

\* C8: on a fresh iterator, next() alone yields the members in ascending
\* order, each once, and then None; next_back() alone yields them in
\* descending order and then None (so one sequence is the other reversed).
C8_IterationInOrder ==
    iter.on =>
        LET asc == Ascending(Members(kind, bits))
            k   == Len(asc)
        IN  /\ AllCalls("next") =>
                 \A n \in 1 .. Len(iter.calls) :
                     iter.calls[n].val = IF n <= k THEN asc[n] ELSE None
            /\ AllCalls("next_back") =>
                 \A n \in 1 .. Len(iter.calls) :
                     iter.calls[n].val = IF n <= k THEN asc[k + 1 - n] ELSE None

\* A packed bitset with members in both its first and last word has been
\* iterated backwards to the end.
C8_Witness ==
    /\ iter.on
    /\ kind = "packed"
    /\ AllCalls("next_back")
    /\ bits[0] # 0
    /\ bits[NumWords - 1] # 0
    /\ Len(iter.calls) = PackedCount(bits) + 1

\* C9: x & y and x | y are pointwise, and the call leaves x and y as they were.
C9_BitwisePointwise ==
    /\ op = "bitand" =>
          /\ \A i \in Domain(kind) :
                 contains(kind, res, i) =
                     (contains(kind, pre, i) /\ contains(kind, OperandAt(kind, arg.a), i))
          /\ bits = pre
          /\ rhs = OperandAt(kind, arg.a)
    /\ op = "bitor" =>
          /\ \A i \in Domain(kind) :
                 contains(kind, res, i) =
                     (contains(kind, pre, i) \/ contains(kind, OperandAt(kind, arg.a), i))
          /\ bits = pre
          /\ rhs = OperandAt(kind, arg.a)

\* x & y on a packed x with members in two words kept the one member of y.
C9_Witness ==
    /\ op = "bitand"
    /\ kind = "packed"
    /\ pre[0] # 0
    /\ pre[NumWords - 1] # 0
    /\ contains(kind, pre, Cap - 1)
    /\ arg.a = Cap - 1
    /\ PackedCount(res) = 1

\* C10: in every state count() is the number of members.
C10_CountIsNumberOfMembers ==
    count(kind, bits) = Cardinality(Members(kind, bits))

\* A sparse bitset with two entries and three members after an insert.
C10_Witness ==
    /\ kind = "sparse"
    /\ op = "insert"
    /\ Len(bits) = 2
    /\ SparseCount(bits) = 3

\* C11: the value empty() returns has count() = 0 and no member, and a fresh
\* iterator over it returns None on the first call from either end.
C11_EmptyHasNoMembers ==
    op = "empty" =>
        /\ count(kind, bits) = 0
        /\ \A i \in Domain(kind) : ~contains(kind, bits, i)
        /\ kind \in RangeKinds =>
              /\ next(kind, bits, into_iter(kind, bits)).val = None
              /\ next_back(kind, bits, into_iter(kind, bits)).val = None

\* empty() of the packed type has been called.
C11_Witness == op = "empty" /\ kind = "packed" /\ pre = bits /\ status = "ok"

\* C12: the value full() returns has count() = fixed_capacity() and every
\* index of [0, capacity) as a member; each slot of a packed full() is the
\* sub-component's full value.
C12_FullHasEveryMember ==
    op = "full" =>
        /\ count(kind, bits) = Cap
        /\ \A i \in Domain(kind) : contains(kind, bits, i)
        /\ kind = "packed" => \A j \in Slots : bits[j] = WMax(WordBits)

\* full() of the packed type has been called.
C12_Witness == op = "full" /\ kind = "packed" /\ PackedCount(bits) = NumWords * WordBits

\* The width of the word of U8Bitset = PrimitiveBitset<u8>.
U8Bits == 8

\* What a fresh iterator over the word yields when it is called from one end
\* until it returns None.
RECURSIVE Drain(_, _, _)
Drain(W, st, back) ==
    LET r == IF back THEN PrimIterNextBack(W, st) ELSE PrimIterNext(W, st)
    IN  IF r.val = None THEN << >> ELSE <<r.val>> \o Drain(W, r.st, back)

\* C13: on an 8-bit primitive bitset started from empty(), insert(2) and
\* insert(5) give count() = 2, forward iteration [2, 5] and backward
\* iteration [5, 2]; remove(5) then gives contains(5) = false and count() = 1.
C13_Scenario8Bit ==
    (kind = "primitive" /\ op = "empty") =>
        LET s2  == PrimSet(U8Bits, bits, 2, build)
            s25 == PrimSet(U8Bits, s2.bits, 5, build)
            s   == PrimUnset(U8Bits, s25.bits, 5, build)
        IN  /\ ~s2.panic /\ ~s25.panic /\ ~s.panic
            /\ PrimCount(s25.bits) = 2
            /\ Drain(U8Bits, s25.bits, FALSE) = <<2, 5>>
            /\ Drain(U8Bits, s25.bits, TRUE) = <<5, 2>>
            /\ ~PrimGet(U8Bits, s.bits, 5)
            /\ PrimCount(s.bits) = 1

\* C14: the sparse bitset is a set of non-negative integers: insert(v) makes
\* v a member and remove(v) makes it a non-member, neither changes whether
\* any other value is a member (values of the same block included), remove(v)
\* without an entry for v's block changes nothing; insert(1000000) on empty()
\* gives contains(1000000), not contains(1), count() = 1, and
\* remove(1000000) then gives not contains(1000000).
C14_SparseIsASet ==
    (kind = "sparse" /\ status = "ok") =>
        /\ op = "insert" =>
              /\ contains(kind, bits, arg.a)
              /\ \A j \in Domain(kind) \ {arg.a} :
                     contains(kind, bits, j) = contains(kind, pre, j)
        /\ op = "remove" =>
              /\ ~contains(kind, bits, arg.a)
              /\ \A j \in Domain(kind) \ {arg.a} :
                     contains(kind, bits, j) = contains(kind, pre, j)
              /\ Scan(pre, index_offset(arg.a)[1]) = 0 =>
                     ~contains(kind, pre, arg.a) /\ bits = pre
        /\ op = "empty" =>
              LET s == SparseSet(bits, 1000000, build).bits
              IN  /\ SparseGet(s, 1000000)
                  /\ ~SparseGet(s, 1)
                  /\ SparseCount(s) = 1
                  /\ ~SparseGet(SparseUnset(s, 1000000, build).bits, 1000000)

\* C15: a SimdBitset and a PackedBitset of the same lane width and count, run
\* from empty() through the same insert, remove, insert_range, remove_range,
\* AND and OR calls with arguments inside [0, N*w], agree after every step on
\* contains(i) for every i, on count() and on what insert returned.
C15_SimdAgreesWithPacked ==
    (status = "ok" /\ ref.status = "ok") =>
        /\ \A i \in 0 .. (Cap - 1) : SimdContains(bits, i) = PackedGet(ref.bits, i)
        /\ SimdCount(bits) = PackedCount(ref.bits)
        /\ op = "insert" => ret = ref.ret

\* What a call left behind: the value, whether it panicked, what it returned.
Outcome == [bits |-> bits, panic |-> status = "panic", ret |-> ret]

\* C16: for every index i in [0, capacity), insert_unchecked(i),
\* remove_unchecked(i) and contains_unchecked(i) leave the same state and
\* return the same value as insert(i), remove(i) and contains(i).
C16_UncheckedAgreesWithChecked ==
    /\ op = "insert_unchecked" => Outcome = insert(kind, pre, arg.a, build)
    /\ op = "remove_unchecked" => Outcome = remove(kind, pre, arg.a, build)
    /\ op = "contains_unchecked" => Outcome = contains_call(kind, pre, arg.a, build)

\* insert_unchecked has set a bit of the last slot of a packed bitset that
\* had members in its first slot.
C16_Witness ==
    /\ op = "insert_unchecked"
    /\ kind = "packed"
    /\ status = "ok"
    /\ arg.a = Cap - 1
    /\ pre[0] # 0
    /\ bits # pre

\* C17: in a debug build insert, remove and contains called with an index
\* >= capacity panic before any bit is written: the state is as before the
\* call and no value (no error value either) is returned.
C17_OutOfRangePanicsInDebug ==
    (build = "debug" /\ op \in {"insert", "remove", "contains"} /\ arg.a >= Cap) =>
        /\ status = "panic"
        /\ bits = pre
        /\ ret = "unit"

\* remove(capacity) has panicked on a non-empty primitive bitset in a debug build.
C17_Witness ==
    /\ build = "debug"
    /\ kind = "primitive"
    /\ op = "remove"
    /\ arg.a = Cap
    /\ status = "panic"
    /\ bits # PrimEmpty

\* The call was a range edit from a start below the capacity to an end past
\* it, or to an unbounded end.
PastTheEnd(name, from) ==
    /\ kind = "primitive"
    /\ arg.a < Cap
    /\ \/ op = name /\ arg.b > Cap
       \/ op = from

\* C18: on a primitive bitset insert_range(a..b) with a < capacity < b has
\* exactly the effect of insert_range(a..capacity), that is every index from
\* a on becomes a member and the others stay; remove_range(a..b) has exactly
\* the effect of remove_range(a..capacity); an unbounded end does the same.
C18_EndBeyondCapacityIsClamped ==
    /\ PastTheEnd("insert_range", "insert_range_from") =>
          /\ Outcome = PrimSetRange(PrimBits, pre, arg.a, Cap, build)
          /\ status = "ok"
          /\ \A j \in 0 .. (Cap - 1) :
                 PrimGet(PrimBits, bits, j) = (j >= arg.a \/ PrimGet(PrimBits, pre, j))
    /\ PastTheEnd("remove_range", "remove_range_from") =>
          /\ Outcome = PrimUnsetRange(PrimBits, pre, arg.a, Cap, build)
          /\ status = "ok"
          /\ \A j \in 0 .. (Cap - 1) :
                 PrimGet(PrimBits, bits, j) = (j < arg.a /\ PrimGet(PrimBits, pre, j))

\* insert_range(1..capacity+1) has run on a primitive bitset that held index 0 only.
C18_Witness ==
    /\ kind = "primitive"
    /\ op = "insert_range"
    /\ arg.a = 1
    /\ arg.b = Cap + 1
    /\ pre = 1
    /\ PrimCount(bits) = Cap

\* C19: after x &= y the value of x is what x & y was before the call, after
\* x |= y it is what x | y was; y is as it was in both cases.
C19_InPlaceAgreesWithValueForm ==
    /\ op = "bitand_assign" =>
          /\ bits = bitand(kind, pre, OperandAt(kind, arg.a))
          /\ rhs = OperandAt(kind, arg.a)
    /\ op = "bitor_assign" =>
          /\ bits = bitor(kind, pre, OperandAt(kind, arg.a))
          /\ rhs = OperandAt(kind, arg.a)

\* x |= y has added the one member of y to a non-empty vectorized x.
C19_Witness ==
    /\ op = "bitor_assign"
    /\ kind = "simd"
    /\ SimdCount(pre) > 0
    /\ SimdCount(rhs) = 1
    /\ SimdCount(bits) = SimdCount(pre) + 1

\* What the calls made on the live iterator yield, from call n on, when they
\* are made on an iterator in state st over the bitset as it is now.
RECURSIVE ReplayFrom(_, _)
ReplayFrom(st, n) ==
    IF n > Len(iter.calls) THEN << >>
    ELSE LET r == IF iter.calls[n].dir = "next" THEN next(kind, bits, st)
                  ELSE next_back(kind, bits, st)
         IN  <<r.val>> \o ReplayFrom(r.st, n + 1)

C21_PackedRangeStaysInside ==
    (kind = "packed" /\ op \in {"insert_range", "remove_range"}) =>
        \A n \in DOMAIN PackedRangeTrace(arg.a, arg.b) :
            PackedRangeTrace(arg.a, arg.b)[n].ei \in Slots

\* The members the calls before call n have not yielded.
RemainingAt(n) ==
    Members(kind, bits) \ {iter.calls[m].val : m \in 1 .. (n - 1)}

\* What call n on a double-ended iterator has to return: the smallest
\* remaining member for next(), the largest for next_back(), None when every
\* member has been yielded.
ExpectedAt(n) ==
    LET S == RemainingAt(n)
    IN  IF S = {} THEN None
        ELSE IF iter.calls[n].dir = "next"
        THEN CHOOSE x \in S : \A y \in S : x <= y
        ELSE CHOOSE x \in S : \A y \in S : x >= y

\* Has the last call on the live iterator returned what a double-ended
\* iterator returns?  (Every call is the last one in the state it leads to.)
LastCallAsExpected ==
    Len(iter.calls) > 0 => iter.calls[Len(iter.calls)].val = ExpectedAt(Len(iter.calls))

\* C22: on the iterator of a vectorized bitset, under every interleaving of
\* next() and next_back(), next() yields the smallest member not yet yielded
\* and next_back() the largest, so each member is yielded exactly once in
\* total, and once all members have been yielded both calls return None.
C22_SimdDoubleEnded ==
    (iter.on /\ kind = "simd") => LastCallAsExpected

\* C23: on the iterator of a primitive or packed bitset, under every
\* interleaving of next() and next_back(), next() yields the smallest
\* remaining member and next_back() the largest, so each member is yielded
\* exactly once and the ends never cross; once count() members have been
\* yielded both calls return None, however often they are made.
C23_DoubleEndedMeetsInTheMiddle ==
    (iter.on /\ kind \in {"primitive", "packed"}) =>
        /\ LastCallAsExpected
        /\ Len(Yielded(iter.calls)) <= count(kind, bits)
        /\ Len(Yielded(iter.calls)) = count(kind, bits) =>
              /\ next(kind, bits, iter.st).val = None
              /\ next_back(kind, bits, iter.st).val = None

\* The iterator of a packed bitset with members in its first and last word
\* has yielded from the front, then from the back until nothing was left, and
\* has returned None.
C23_Witness ==
    /\ iter.on
    /\ kind = "packed"
    /\ bits[0] # 0
    /\ bits[NumWords - 1] # 0
    /\ PackedCount(bits) >= 3
    /\ iter.calls # << >>
    /\ iter.calls[1].dir = "next"
    /\ iter.calls[1].val # None
    /\ iter.calls[Len(iter.calls)].dir = "next_back"
    /\ iter.calls[Len(iter.calls)].val = None
    /\ Len(Yielded(iter.calls)) = PackedCount(bits)

\* C24: a sparse bitset over a store of N entry slots never holds more than
\* N entries; an insert into a block without an entry when N entries are
\* stored is stopped (the call panics) and writes no entry past slot N - 1.
C24_BoundedStoreNeverOverruns ==
    kind = "sparse" =>
        /\ Len(bits) <= ArraySlots
        /\ (op = "insert" /\ Len(pre) = ArraySlots
                /\ Scan(pre, index_offset(arg.a)[1]) = 0) =>
              status = "panic" /\ bits = pre

\* C25: in every state reached from empty() by insert and remove no two
\* stored entries of a sparse bitset have the same block index: the entry the
\* linear scan finds first is the only one of its block, and count() counts
\* no value twice.
C25_SparseBlocksUnique ==
    kind = "sparse" =>
        /\ \A j, k \in 1 .. Len(bits) : bits[j].index = bits[k].index => j = k
        /\ \A k \in 1 .. Len(bits) : Scan(bits, bits[k].index) = k
        /\ SparseCount(bits) = Cardinality(Members(kind, bits))

\* An insert has gone into the block of the entry stored first while the
\* sparse bitset held an entry for every block.
C25_Witness ==
    /\ kind = "sparse"
    /\ op = "insert"
    /\ Len(pre) = SparseBlocks
    /\ Len(bits) = SparseBlocks
    /\ index_offset(arg.a)[1] = bits[1].index
    /\ bits # pre

\* C26: insert_range(a..a) and remove_range(a..a) with a in [0, capacity]
\* (a = capacity included) do not panic and leave contains(i) for every i and
\* count() as they were, for every type with range edits.
C26_EmptyRangeEditsNothing ==
    (kind \in RangeKinds /\ op \in {"insert_range", "remove_range"} /\ arg.a = arg.b) =>
        /\ status = "ok"
        /\ \A i \in Domain(kind) : contains(kind, bits, i) = contains(kind, pre, i)
        /\ count(kind, bits) = count(kind, pre)

\* The accesses of a trace that serve the given part of the edit.
PartsOf(t, part) == {n \in DOMAIN t : t[n].part = part}

\* C27: in a packed range edit that spans more than one sub-component no
\* leading-fragment call is delegated when start % sub_capacity = 0, no
\* trailing-fragment call is delegated when end % sub_capacity = 0, a partial
\* fragment goes to one sub-component only, and every sub-component that lies
\* wholly inside the range is assigned full() / empty() exactly once.
C27_PackedFragments ==
    (kind = "packed" /\ op \in {"insert_range", "remove_range"}
         /\ element_index(arg.a) # element_index(arg.b)) =>
        LET t == PackedRangeTrace(arg.a, arg.b)
        IN  /\ bit_index(arg.a) = 0 => PartsOf(t, "lead") = {}
            /\ bit_index(arg.b) = 0 => PartsOf(t, "trail") = {}
            /\ Cardinality(PartsOf(t, "lead")) <= 1
            /\ Cardinality(PartsOf(t, "trail")) <= 1
            /\ \A j \in Slots :
                   (arg.a <= j * WordBits /\ (j + 1) * WordBits <= arg.b) =>
                       Cardinality({n \in PartsOf(t, "whole") : t[n].ei = j}) = 1

\* C28: insert(i) makes i a member and changes no other bit: contains(j) is
\* as before for every j # i, for every concrete type; in a packed or
\* vectorized bitset only the sub-component / lane i / sub_capacity is written.
C28_InsertChangesOnlyBitI ==
    (op = "insert" /\ status = "ok") =>
        /\ contains(kind, bits, arg.a)
        /\ \A j \in Domain(kind) \ {arg.a} :
               contains(kind, bits, j) = contains(kind, pre, j)
        /\ kind \in {"packed", "simd"} =>
               \A slot \in Slots \ {arg.a \div WordBits} : bits[slot] = pre[slot]

\* insert has added an index of the last lane to a vectorized bitset that
\* had a member in its first lane and none in its last.
C28_Witness ==
    /\ op = "insert"
    /\ kind = "simd"
    /\ status = "ok"
    /\ arg.a \div WordBits = NumWords - 1
    /\ pre[0] # 0
    /\ pre[0] # WMax(WordBits)
    /\ pre[NumWords - 1] = 0
    /\ SimdCount(bits) = SimdCount(pre) + 1

\* Did the last range edit take the lane-aligned fast path?
LaneAligned == arg.a % WordBits = 0 /\ arg.b % WordBits = 0

\* C29: on a vectorized bitset insert_range(a..b) and remove_range(a..b)
\* with b > capacity do not panic and change exactly the indices of
\* [a, capacity) (nothing when a >= capacity), on the fast path and on the
\* slow path; on every lane-aligned range the fast path gives what the
\* bit-by-bit slow path gives.
C29_SimdRangeClampsAtCapacity ==
    kind = "simd" =>
        /\ (op = "insert_range" /\ arg.b > Cap) =>
              /\ status = "ok"
              /\ \A j \in 0 .. (Cap - 1) :
                     SimdContains(bits, j) = (arg.a <= j \/ SimdContains(pre, j))
        /\ (op = "remove_range" /\ arg.b > Cap) =>
              /\ status = "ok"
              /\ \A j \in 0 .. (Cap - 1) :
                     SimdContains(bits, j) = (j < arg.a /\ SimdContains(pre, j))
        /\ (op = "insert_range" /\ LaneAligned) =>
              bits = SimdSlowPath(pre, arg.a, arg.b, "set")
        /\ (op = "remove_range" /\ LaneAligned) =>
              bits = SimdSlowPath(pre, arg.a, arg.b, "unset")

\* A lane-aligned insert_range from the second lane to one lane past the
\* capacity has filled the lanes from the second on and kept the first.
C29_Witness ==
    /\ kind = "simd"
    /\ op = "insert_range"
    /\ status = "ok"
    /\ arg.a = WordBits
    /\ arg.b = Cap + WordBits
    /\ pre[0] = 1
    /\ pre[NumWords - 1] = 0
    /\ bits[0] = 1
    /\ SimdCount(bits) = Cap - WordBits + 1

\* The block indices that have an entry.
BlocksOf(components) == {components[k].index : k \in 1 .. Len(components)}

\* C30: the entry list of a sparse bitset only grows: no call makes it
\* shorter or moves an entry to another block, an insert adds the block of
\* its value to the blocks that have an entry and no other call adds one (so
\* the number of entries is the number of distinct blocks ever inserted
\* into), a remove keeps the entry even when its word becomes zero, and an
\* insert into a block that has an entry appends nothing.
C30_EntryListOnlyGrows ==
    [][kind = "sparse" =>
          /\ Len(bits') >= Len(bits)
          /\ \A k \in 1 .. Len(bits) : bits'[k].index = bits[k].index
          /\ BlocksOf(bits') =
                 BlocksOf(bits) \cup (IF op' = "insert" /\ op = "idle"
                                      THEN {index_offset(arg'.a)[1]} ELSE {})
          /\ Len(bits') = Cardinality(BlocksOf(bits'))
          /\ (op' = "remove" /\ op = "idle") => Len(bits') = Len(bits)
          /\ (op' = "insert" /\ op = "idle"
                  /\ index_offset(arg'.a)[1] \in BlocksOf(bits)) =>
                 Len(bits') = Len(bits)]_vars

\* An insert has reused the entry of a block whose word a remove had made
\* zero: the word is non-zero again and no entry was appended.
C30_Witness ==
    /\ kind = "sparse"
    /\ op = "insert"
    /\ Len(pre) = SparseBlocks
    /\ Len(bits) = Len(pre)
    /\ \E k \in 1 .. Len(pre) :
          /\ pre[k].index = index_offset(arg.a)[1]
          /\ pre[k].bits = 0
          /\ bits[k].bits # 0

====
